---- MODULE Spec2Model ----
(***************************************************************************)
(* Model of scripts/run_e01_demo.py (main and its helpers) and of the      *)
(* column check of src/viz.py.  One run of main() is a sequential state    *)
(* machine; every call into pandas, matplotlib, plotly or the file system  *)
(* that can raise is a nondeterministic choice between its outcomes.       *)
(***************************************************************************)
EXTENDS Integers, Sequences, FiniteSets, TLC

VARIABLES args, pc, df, report, data_ok, plots_ok, passed, rc,
          files, writes, stderr, trace, failed

vars == <<args, pc, df, report, data_ok, plots_ok, passed, rc,
          files, writes, stderr, trace, failed>>

\* Largest row count of a user-supplied CSV that the model enumerates.
MaxRows == 2

\* ---------------------------------------------------------------- values

\* Python's True / False / None as stored in report["checks"].
PyTrue == "True"
PyFalse == "False"
PyNone == "None"

PyBool(b) == IF b THEN PyTrue ELSE PyFalse

\* Truthiness of a check value in `if x:` and in `a and b`.
Truthy(v) == v = PyTrue

\* dict.get(key): None when the key is absent.
Get(d, k) == IF k \in DOMAIN d THEN d[k] ELSE PyNone

\* d[key] = value
SetKey(d, k, v) == [x \in (DOMAIN d) \cup {k} |-> IF x = k THEN v ELSE d[x]]

EmptyDict == [x \in {} |-> PyNone]

REQUIRED_COLUMNS == <<"month", "sales", "ad_spend">>

RequiredSet == {REQUIRED_COLUMNS[i] : i \in 1..Len(REQUIRED_COLUMNS)}

NumericColumns == {"sales", "ad_spend"}

\* Artifact file names under outdir.
df_path == "e01_demo_data.csv"
stats_path == "e01_demo_stats.txt"
png_path == "sales_vs_ads_static.png"
html_path == "sales_vs_ads_interactive.html"
report_path == "e01_check_report.json"

\* A data frame: which of the required columns it has, which of sales and
\* ad_spend have a numeric dtype, and its number of rows.
DataFrames ==
    {[columns |-> c, numeric |-> n, row_count |-> r] :
        c \in SUBSET RequiredSet, n \in SUBSET NumericColumns, r \in 0..MaxRows}

ValidFrames == {d \in DataFrames : d.numeric \subseteq d.columns}

DemoRows == 6

build_demo_data ==
    [columns |-> RequiredSet, numeric |-> NumericColumns, row_count |-> DemoRows]

NoFrame == [columns |-> {}, numeric |-> {}, row_count |-> 0]

\* ------------------------------------------------------------- arguments

Suffixes == {".csv", ".CSV", ".txt"}

\* str.lower() on the suffixes the model enumerates.
Lower(s) == IF s = ".CSV" THEN ".csv" ELSE s

NoInput == [given |-> FALSE, exists |-> FALSE, suffix |-> ""]

Inputs == {NoInput} \cup [given : {TRUE}, exists : BOOLEAN, suffix : Suffixes]

Args == [input : Inputs, no_plots : BOOLEAN, strict : BOOLEAN]

\* ------------------------------------------------------------- load_data

\* load_data with the suffix compared without lower-casing it.
load_data_CaseSensitive(inp) ==
    IF ~inp.given
    THEN {[raised |-> FALSE, exc |-> "", df |-> build_demo_data,
           source |-> "built-in demo data"]}
    ELSE IF ~inp.exists
    THEN {[raised |-> TRUE, exc |-> "FileNotFoundError", df |-> NoFrame, source |-> ""]}
    ELSE IF inp.suffix # ".csv"
    THEN {[raised |-> TRUE, exc |-> "ValueError", df |-> NoFrame, source |-> ""]}
    ELSE {[raised |-> TRUE, exc |-> "read_csv", df |-> NoFrame, source |-> ""]}
         \cup {[raised |-> FALSE, exc |-> "", df |-> d, source |-> "csv:p"] :
                  d \in ValidFrames}

LoadOkResult(d, s) == [raised |-> FALSE, exc |-> "", df |-> d, source |-> s]

LoadRaise(e) == [raised |-> TRUE, exc |-> e, df |-> NoFrame, source |-> ""]

\* The outcomes of load_data(input_path).
load_data(inp) ==
    IF ~inp.given
    THEN {LoadOkResult(build_demo_data, "built-in demo data")}
    ELSE IF ~inp.exists
    THEN {LoadRaise("FileNotFoundError")}
    ELSE IF Lower(inp.suffix) # ".csv"
    THEN {LoadRaise("ValueError")}
    ELSE {LoadRaise("read_csv")} \cup {LoadOkResult(d, "csv:p") : d \in ValidFrames}

\* ---------------------------------------------------- validate_dataframe

validate_dataframe(d) ==
    [required_columns |-> REQUIRED_COLUMNS,
     columns_present  |-> d.columns,
     missing_columns  |-> SelectSeq(REQUIRED_COLUMNS, LAMBDA c : c \notin d.columns),
     dtype_issues     |-> {c \in NumericColumns : c \in d.columns /\ c \notin d.numeric},
     row_count        |-> d.row_count]

DataOk(vinfo) == Len(vinfo.missing_columns) = 0 /\ vinfo.row_count > 0

\* pd.to_numeric(..., errors="coerce") on sales and ad_spend when present.
Coerce(d) == [d EXCEPT !.numeric = d.numeric \cup (NumericColumns \cap d.columns)]

\* ------------------------------------------------------------------- viz

\* The column check at the head of both plot functions (x=ad_spend, y=sales).
PlotRaisesValueError(d) == "ad_spend" \notin d.columns \/ "sales" \notin d.columns

\* ---------------------------------------------------------------- report

ReportSkeleton(a) ==
    [experiment  |-> "E01",
     timestamp   |-> "now",
     outdir      |-> "outdir",
     input       |-> a.input,
     data_source |-> PyNone,
     checks      |-> EmptyDict,
     artifacts   |-> [csv |-> df_path, stats |-> stats_path,
                      static_png |-> png_path, interactive_html |-> html_path],
     pass        |-> FALSE,
     score       |-> 0,
     messages    |-> <<>>]

\* checks after the loader raised.
LoadFailChecks(c) == SetKey(c, "data_load_ok", PyFalse)

\* The except branch of the artifact stage clearing only the CSV flag.
ArtifactFailChecksCsvOnly(c) == SetKey(c, "artifacts_csv_ok", PyFalse)

\* checks after the except branch of the artifact stage.
ArtifactFailChecks(c) ==
    SetKey(SetKey(c, "artifacts_csv_ok", PyFalse), "artifacts_stats_ok", PyFalse)

\* checks after the try branch of the artifact stage, fs = files afterwards.
ArtifactOkChecks(c, fs) ==
    SetKey(SetKey(c, "artifacts_csv_ok", PyBool(df_path \in fs)),
           "artifacts_stats_ok", PyBool(stats_path \in fs))

\* checks after the --no-plots branch.
SkipPlotsChecks(c) ==
    SetKey(SetKey(SetKey(c, "plots_skipped", PyTrue),
                  "static_png_ok", PyNone),
           "interactive_html_ok", PyNone)

\* checks after the except branch of the static render.
StaticFailChecks(c) == SetKey(c, "static_png_ok", PyFalse)

\* The except branch of the interactive render leaving the flag unset.
InteractiveFailChecksNoFlag(c) == c

\* checks after the except branch of the interactive render.
InteractiveFailChecks(c) == SetKey(c, "interactive_html_ok", PyFalse)

\* A fail-fast static render: its except branch goes straight to scoring.
AfterStaticFailFast == "score"

\* Where main continues after the static render's except branch.
AfterStaticFail == "interactive"

\* The score with the static chart credited 10 instead of 15.
ScoreStatic10(c, dok, no_plots) ==
    (IF Truthy(Get(c, "data_load_ok")) THEN 20 ELSE 0)
  + (IF dok THEN 30 ELSE 0)
  + (IF Truthy(Get(c, "artifacts_csv_ok")) THEN 10 ELSE 0)
  + (IF Truthy(Get(c, "artifacts_stats_ok")) THEN 10 ELSE 0)
  + (IF ~no_plots
     THEN (IF Truthy(Get(c, "static_png_ok")) THEN 10 ELSE 0)
        + (IF Truthy(Get(c, "interactive_html_ok")) THEN 15 ELSE 0)
     ELSE 10)

\* The score without the flat credit for skipped charts.
ScoreNoSkipCredit(c, dok, no_plots) ==
    (IF Truthy(Get(c, "data_load_ok")) THEN 20 ELSE 0)
  + (IF dok THEN 30 ELSE 0)
  + (IF Truthy(Get(c, "artifacts_csv_ok")) THEN 10 ELSE 0)
  + (IF Truthy(Get(c, "artifacts_stats_ok")) THEN 10 ELSE 0)
  + (IF ~no_plots
     THEN (IF Truthy(Get(c, "static_png_ok")) THEN 15 ELSE 0)
        + (IF Truthy(Get(c, "interactive_html_ok")) THEN 15 ELSE 0)
     ELSE 0)

\* The point-additive score.
Score(c, dok, no_plots) ==
    (IF Truthy(Get(c, "data_load_ok")) THEN 20 ELSE 0)
  + (IF dok THEN 30 ELSE 0)
  + (IF Truthy(Get(c, "artifacts_csv_ok")) THEN 10 ELSE 0)
  + (IF Truthy(Get(c, "artifacts_stats_ok")) THEN 10 ELSE 0)
  + (IF ~no_plots
     THEN (IF Truthy(Get(c, "static_png_ok")) THEN 15 ELSE 0)
        + (IF Truthy(Get(c, "interactive_html_ok")) THEN 15 ELSE 0)
     ELSE 10)

\* The verdict with the data_ok conjunct dropped.
PassVerdictNoData(c, dok, no_plots, pok) ==
    /\ Truthy(Get(c, "artifacts_csv_ok")) /\ Truthy(Get(c, "artifacts_stats_ok"))
    /\ (no_plots \/ (Truthy(Get(c, "static_png_ok"))
                      /\ Truthy(Get(c, "interactive_html_ok"))))
    /\ pok

\* bool(data_ok and artifacts_ok and plots_pass and plots_ok)
PassVerdict(c, dok, no_plots, pok) ==
    LET artifacts_ok == Truthy(Get(c, "artifacts_csv_ok"))
                        /\ Truthy(Get(c, "artifacts_stats_ok"))
        plots_pass   == IF no_plots THEN TRUE
                        ELSE Truthy(Get(c, "static_png_ok"))
                             /\ Truthy(Get(c, "interactive_html_ok"))
    IN  dok /\ artifacts_ok /\ plots_pass /\ pok

\* The exit code with --strict ignored.
ExitCodeAlwaysStrict(strict, p) == IF ~p THEN 1 ELSE 0

\* The value main returns after the report is written.
ExitCode(strict, p) == IF strict /\ ~p THEN 1 ELSE 0

LoadFailExitCode == 2

NotReturned == -1

\* The report handed to _write_report twice.
WriteReportTwice(w, r) == Append(Append(w, r), r)

\* _write_report: the list of reports handed to it so far, extended by r.
WriteReportCalls(w, r) == Append(w, r)

\* ------------------------------------------------------------------ Init

Init ==
    /\ args \in Args
    /\ pc = "load"
    /\ df = NoFrame
    /\ report = ReportSkeleton(args)
    /\ data_ok = FALSE
    /\ plots_ok = TRUE
    /\ passed = FALSE
    /\ rc = NotReturned
    /\ files = {}
    /\ writes = <<>>
    /\ stderr = <<>>
    /\ trace = <<>>
    /\ failed = {}

\* --------------------------------------------------------------- actions

\* 1) load_data raised: message, data_load_ok = False, report written, return 2.
LoadFail ==
    /\ pc = "load"
    /\ \E res \in load_data(args.input), ok \in BOOLEAN :
        /\ res.raised
        /\ LET r == [report EXCEPT !.messages = Append(@, "ERROR_load"),
                                   !.checks = LoadFailChecks(@)]
           IN  /\ report' = r
               /\ writes' = WriteReportCalls(writes, r)
               /\ files' = IF ok THEN files \cup {report_path} ELSE files
               /\ stderr' = IF ok THEN stderr ELSE Append(stderr, r)
               /\ failed' = failed \cup {res.exc}
                            \cup (IF ok THEN {} ELSE {"_write_report"})
    /\ trace' = trace \o <<"load_data", "_write_report">>
    /\ rc' = LoadFailExitCode
    /\ pc' = "done"
    /\ UNCHANGED <<args, df, data_ok, plots_ok, passed>>

\* 1) load_data returned: data_source and data_load_ok = True.
LoadOk ==
    /\ pc = "load"
    /\ \E res \in load_data(args.input) :
        /\ ~res.raised
        /\ df' = res.df
        /\ report' = [report EXCEPT !.data_source = res.source,
                                    !.checks = SetKey(@, "data_load_ok", PyTrue)]
    /\ trace' = Append(trace, "load_data")
    /\ pc' = "validate"
    /\ UNCHANGED <<args, data_ok, plots_ok, passed, rc, files, writes, stderr, failed>>

\* 2) validate_dataframe and data_ok.
Validate ==
    /\ pc = "validate"
    /\ LET vinfo == validate_dataframe(df)
       IN  /\ report' = [report EXCEPT !.checks = SetKey(@, "data_validation", vinfo)]
           /\ data_ok' = DataOk(vinfo)
    /\ trace' = Append(trace, "validate_dataframe")
    /\ pc' = "coerce"
    /\ UNCHANGED <<args, df, plots_ok, passed, rc, files, writes, stderr, failed>>

\* Numeric coercion, then the warning when data_ok is false.
CoerceStep ==
    /\ pc = "coerce"
    /\ df' = Coerce(df)
    /\ report' = IF ~data_ok
                 THEN [report EXCEPT !.messages = Append(@, "WARN_data")]
                 ELSE report
    /\ trace' = Append(trace, "to_numeric")
    /\ pc' = "artifacts"
    /\ UNCHANGED <<args, data_ok, plots_ok, passed, rc, files, writes, stderr, failed>>

\* 3) df.to_csv raised.
ArtifactsCsvFail ==
    /\ pc = "artifacts"
    /\ report' = [report EXCEPT !.messages = Append(@, "ERROR_artifacts"),
                                !.checks = ArtifactFailChecks(@)]
    /\ trace' = Append(trace, "to_csv")
    /\ failed' = failed \cup {"to_csv"}
    /\ pc' = "plots"
    /\ UNCHANGED <<args, df, data_ok, plots_ok, passed, rc, files, writes, stderr>>

\* 3) df.to_csv wrote the CSV, write_text_stats raised.
ArtifactsStatsFail ==
    /\ pc = "artifacts"
    /\ files' = files \cup {df_path}
    /\ report' = [report EXCEPT !.messages = Append(@, "ERROR_artifacts"),
                                !.checks = ArtifactFailChecks(@)]
    /\ trace' = trace \o <<"to_csv", "write_text_stats">>
    /\ failed' = failed \cup {"write_text_stats"}
    /\ pc' = "plots"
    /\ UNCHANGED <<args, df, data_ok, plots_ok, passed, rc, writes, stderr>>

\* 3) both files written; the flags are the files' existence.
ArtifactsOk ==
    /\ pc = "artifacts"
    /\ files' = files \cup {df_path, stats_path}
    /\ report' = [report EXCEPT !.checks = ArtifactOkChecks(@, files')]
    /\ trace' = trace \o <<"to_csv", "write_text_stats">>
    /\ pc' = "plots"
    /\ UNCHANGED <<args, df, data_ok, plots_ok, passed, rc, writes, stderr, failed>>

\* 4) --no-plots.
PlotsSkip ==
    /\ pc = "plots"
    /\ args.no_plots
    /\ report' = [report EXCEPT !.checks = SkipPlotsChecks(@)]
    /\ plots_ok' = TRUE
    /\ trace' = Append(trace, "skip_plots")
    /\ pc' = "score"
    /\ UNCHANGED <<args, df, data_ok, passed, rc, files, writes, stderr, failed>>

\* 4.1) static figure built and saved.
StaticOk ==
    /\ pc = "plots"
    /\ ~args.no_plots
    /\ ~PlotRaisesValueError(df)
    /\ files' = files \cup {png_path}
    /\ report' = [report EXCEPT !.checks =
                     SetKey(SetKey(@, "plots_skipped", PyFalse),
                            "static_png_ok", PyBool(png_path \in files'))]
    /\ plots_ok' = TRUE
    /\ trace' = Append(trace, "plot_static")
    /\ pc' = "interactive"
    /\ UNCHANGED <<args, df, data_ok, passed, rc, writes, stderr, failed>>

\* 4.1) plot_sales_vs_ads_static or savefig raised.
StaticFail ==
    /\ pc = "plots"
    /\ ~args.no_plots
    /\ report' = [report EXCEPT !.checks =
                     StaticFailChecks(SetKey(@, "plots_skipped", PyFalse)),
                                !.messages = Append(@, "ERROR_static")]
    /\ plots_ok' = FALSE
    /\ trace' = Append(trace, "plot_static")
    /\ failed' = failed \cup {"plot_static"}
    /\ pc' = AfterStaticFail
    /\ UNCHANGED <<args, df, data_ok, passed, rc, files, writes, stderr>>

\* 4.2) interactive figure built and written.
InteractiveOk ==
    /\ pc = "interactive"
    /\ ~PlotRaisesValueError(df)
    /\ files' = files \cup {html_path}
    /\ report' = [report EXCEPT !.checks =
                     SetKey(@, "interactive_html_ok", PyBool(html_path \in files'))]
    /\ trace' = Append(trace, "plot_interactive")
    /\ pc' = "score"
    /\ UNCHANGED <<args, df, data_ok, plots_ok, passed, rc, writes, stderr, failed>>

\* 4.2) plot_sales_vs_ads_interactive or write_html raised.
InteractiveFail ==
    /\ pc = "interactive"
    /\ report' = [report EXCEPT !.checks = InteractiveFailChecks(@),
                                !.messages = Append(@, "ERROR_interactive")]
    /\ plots_ok' = FALSE
    /\ trace' = Append(trace, "plot_interactive")
    /\ failed' = failed \cup {"plot_interactive"}
    /\ pc' = "score"
    /\ UNCHANGED <<args, df, data_ok, passed, rc, files, writes, stderr>>

\* 5) score and pass verdict.
ScoreStep ==
    /\ pc = "score"
    /\ passed' = PassVerdict(report.checks, data_ok, args.no_plots, plots_ok)
    /\ report' = [report EXCEPT !.score = Score(report.checks, data_ok, args.no_plots),
                                !.pass = passed']
    /\ trace' = Append(trace, "score")
    /\ pc' = "report"
    /\ UNCHANGED <<args, df, data_ok, plots_ok, rc, files, writes, stderr, failed>>

\* _write_report, then the exit code.
ReportStep ==
    /\ pc = "report"
    /\ \E ok \in BOOLEAN :
        /\ files' = IF ok THEN files \cup {report_path} ELSE files
        /\ stderr' = IF ok THEN stderr ELSE Append(stderr, report)
        /\ failed' = failed \cup (IF ok THEN {} ELSE {"_write_report"})
    /\ writes' = WriteReportCalls(writes, report)
    /\ trace' = Append(trace, "_write_report")
    /\ rc' = ExitCode(args.strict, passed)
    /\ pc' = "done"
    /\ UNCHANGED <<args, df, report, data_ok, plots_ok, passed>>

Next ==
    \/ LoadFail
    \/ LoadOk
    \/ Validate
    \/ CoerceStep
    \/ ArtifactsCsvFail
    \/ ArtifactsStatsFail
    \/ ArtifactsOk
    \/ PlotsSkip
    \/ StaticOk
    \/ StaticFail
    \/ InteractiveOk
    \/ InteractiveFail
    \/ ScoreStep
    \/ ReportStep

Spec == Init /\ [][Next]_vars

\* ------------------------------------------------------------ properties

Count(s, e) == Cardinality({i \in 1..Len(s) : s[i] = e})

Has(s, e) == \E i \in 1..Len(s) : s[i] = e

Done == pc = "done"

\* The scoring stage has run.
ReachedScoring == Has(trace, "score")

\* load_data raised, whatever the cause.
LoaderRaised == failed \cap {"FileNotFoundError", "ValueError", "read_csv"} # {}

\* main returned through the except branch of the load stage.
EarlyExit == Done /\ trace = <<"load_data", "_write_report">>

\* No required column is missing and there is at least one row.
FrameOk == RequiredSet \subseteq df.columns /\ df.row_count > 0

\* An except branch of a chart render has run.
ChartRaised == "plot_static" \in failed \/ "plot_interactive" \in failed

Flag(k) == Get(report.checks, k)

ChartsOkOrSkipped ==
    args.no_plots \/ (Flag("static_png_ok") = PyTrue /\ Flag("interactive_html_ok") = PyTrue)

\* C1: once the scoring stage has run, pass is true exactly when the data is
\* ok, both text artifact flags are true, the charts were skipped or both
\* chart flags are true, and no chart render raised; after a loader failure
\* pass is false.
C1_PassIffAllChecks ==
    /\ ReachedScoring =>
         (report.pass <=> (/\ FrameOk
                           /\ Flag("artifacts_csv_ok") = PyTrue
                           /\ Flag("artifacts_stats_ok") = PyTrue
                           /\ ChartsOkOrSkipped
                           /\ ~ChartRaised))
    /\ LoaderRaised => ~report.pass

C1_Witness ==
    Done /\ ReachedScoring /\ report.pass /\ ~args.no_plots /\ args.input.given

\* The score the scoring rules give to the flags of the report.
ExpectedScore ==
    20 + (IF FrameOk THEN 30 ELSE 0)
       + (IF Flag("artifacts_csv_ok") = PyTrue THEN 10 ELSE 0)
       + (IF Flag("artifacts_stats_ok") = PyTrue THEN 10 ELSE 0)
       + (IF args.no_plots THEN 10
          ELSE (IF Flag("static_png_ok") = PyTrue THEN 15 ELSE 0)
             + (IF Flag("interactive_html_ok") = PyTrue THEN 15 ELSE 0))

\* C2: once the scoring stage has run, the reported score is 20 + 30 for
\* data_ok + 10 per text artifact flag + 15 per chart flag, or a flat 10 when
\* the charts are skipped, and lies in 0..100.
C2_ScoreIsSumOfCredits ==
    ReachedScoring => (report.score = ExpectedScore /\ report.score \in 0..100)

C2_Witness ==
    /\ Done /\ ~args.no_plots /\ report.score = 65
    /\ Flag("static_png_ok") = PyTrue /\ Flag("interactive_html_ok") = PyFalse

\* C3: main returns 2 exactly when the loader raised, 1 exactly when the
\* loader succeeded, --strict is set and the verdict is false, 0 otherwise.
C3_ExitCodes ==
    Done =>
      /\ rc \in {0, 1, 2}
      /\ rc = 2 <=> LoaderRaised
      /\ rc = 1 <=> (~LoaderRaised /\ args.strict /\ ~report.pass)
      /\ rc = 0 <=> (~LoaderRaised /\ ~(args.strict /\ ~report.pass))

C3_Witness == Done /\ rc = 1 /\ args.strict /\ report.score > 20

\* The causes of a loader failure that the claim C4 names.
MissingOrNotCsv ==
    args.input.given /\ (~args.input.exists \/ Lower(args.input.suffix) # ".csv")

\* What holds on the early-exit path: one report written with data_load_ok
\* false and the error message, no later stage run, no artifact flag true.
EarlyExitReport ==
    /\ Len(writes) = 1
    /\ Get(writes[1].checks, "data_load_ok") = PyFalse
    /\ Has(writes[1].messages, "ERROR_load")
    /\ \A e \in {"validate_dataframe", "to_numeric", "to_csv", "write_text_stats",
                 "plot_static", "plot_interactive", "skip_plots", "score"} :
          ~Has(trace, e)
    /\ \A k \in {"artifacts_csv_ok", "artifacts_stats_ok",
                 "static_png_ok", "interactive_html_ok"} : Flag(k) # PyTrue
    /\ files \cap {df_path, stats_path, png_path, html_path} = {}

\* C4 as stated: the early exit is taken exactly for a missing input file or
\* a non-.csv extension, and then the report is written as described.
C4_EarlyExitIffMissingOrNotCsv ==
    Done => /\ EarlyExit <=> MissingOrNotCsv
            /\ EarlyExit => EarlyExitReport

\* C4 amended: the early exit is taken exactly when load_data raises, that
\* is for a missing input file, a non-.csv extension or a pd.read_csv that
\* raises on an existing .csv file; then the report is written with
\* data_load_ok false and the error message, no later stage runs and no
\* artifact flag is true.
C4_EarlyExitIffLoaderRaises ==
    Done => /\ EarlyExit <=> (MissingOrNotCsv \/ "read_csv" \in failed)
            /\ EarlyExit <=> LoaderRaised
            /\ EarlyExit => EarlyExitReport

C4_Witness ==
    EarlyExit /\ args.input.exists /\ args.input.suffix = ".CSV" /\ "read_csv" \in failed

\* The chart flags of the written report are neither true nor false.
ChartFlagsNotApplicable ==
    \A k \in {"static_png_ok", "interactive_html_ok"} :
        Get(writes[1].checks, k) \notin {PyTrue, PyFalse}

\* The credits of the written report other than the chart credit.
OtherCredits ==
    (IF Get(writes[1].checks, "data_load_ok") = PyTrue THEN 20 ELSE 0)
  + (IF ReachedScoring /\ FrameOk THEN 30 ELSE 0)
  + (IF Get(writes[1].checks, "artifacts_csv_ok") = PyTrue THEN 10 ELSE 0)
  + (IF Get(writes[1].checks, "artifacts_stats_ok") = PyTrue THEN 10 ELSE 0)

\* C5 as stated: in every --no-plots run, loader failure included, the
\* chart flags are neither true nor false and the score holds the flat +10.
C5_NoPlotsAlwaysFlatCredit ==
    (Done /\ args.no_plots) =>
        /\ ChartFlagsNotApplicable
        /\ writes[1].score = OtherCredits + 10

\* C5 amended: in every --no-plots run the chart flags of the written report
\* are neither true nor false; when the loader did not raise, the score holds
\* the flat +10 whichever of validation and artifact writing failed; when the
\* loader raised, the score is 0.
C5_NoPlotsFlatCreditAfterLoad ==
    (Done /\ args.no_plots) =>
        /\ ChartFlagsNotApplicable
        /\ ~LoaderRaised => writes[1].score = OtherCredits + 10
        /\ LoaderRaised => writes[1].score = 0

C5_Witness ==
    /\ Done /\ args.no_plots /\ ~LoaderRaised /\ ~FrameOk
    /\ "write_text_stats" \in failed
    /\ writes[1].score = 30
    /\ Get(writes[1].checks, "static_png_ok") = PyNone

TopLevelKeys ==
    {"experiment", "timestamp", "outdir", "input", "data_source", "checks",
     "artifacts", "pass", "score", "messages"}

CheckKeys ==
    {"data_load_ok", "data_validation", "artifacts_csv_ok", "artifacts_stats_ok",
     "plots_skipped", "static_png_ok", "interactive_html_ok"}

ArtifactKeys == {"csv", "stats", "static_png", "interactive_html"}

\* C6 as stated: every report handed to _write_report has every key of the
\* schema, loader failure included.
C6_AllKeysAlways ==
    \A i \in 1..Len(writes) :
        /\ TopLevelKeys \subseteq DOMAIN writes[i]
        /\ CheckKeys \subseteq DOMAIN writes[i].checks
        /\ ArtifactKeys \subseteq DOMAIN writes[i].artifacts

\* C6 amended: every report handed to _write_report has every top-level key
\* and every key of artifacts; checks has all seven keys when the loader did
\* not raise, and only data_load_ok when it raised.
C6_AllKeysAfterLoad ==
    \A i \in 1..Len(writes) :
        /\ DOMAIN writes[i] = TopLevelKeys
        /\ DOMAIN writes[i].artifacts = ArtifactKeys
        /\ ~LoaderRaised => DOMAIN writes[i].checks = CheckKeys
        /\ LoaderRaised => DOMAIN writes[i].checks = {"data_load_ok"}

C6_Witness ==
    /\ Done /\ ~LoaderRaised /\ ~FrameOk
    /\ {"to_csv", "plot_static", "plot_interactive", "_write_report"} \subseteq failed
    /\ DOMAIN writes[1].checks = CheckKeys

\* C7: a failed write of the CSV or of the stats file is caught, leaves a
\* message, sets the flag of the file whose write failed to false, each flag
\* telling the outcome of its own file, and the chart, scoring and report
\* stages still run.
C7_EachFlagTellsItsOwnFile ==
    (Done /\ ~LoaderRaised) =>
        /\ ("to_csv" \in failed \/ "write_text_stats" \in failed)
              => Has(report.messages, "ERROR_artifacts")
        /\ "to_csv" \in failed => Flag("artifacts_csv_ok") = PyFalse
        /\ "write_text_stats" \in failed => Flag("artifacts_stats_ok") = PyFalse
        /\ Flag("artifacts_csv_ok") = PyBool(df_path \in files)
        /\ Flag("artifacts_stats_ok") = PyBool(stats_path \in files)
        /\ Has(trace, "skip_plots") \/ Has(trace, "plot_static")
        /\ Has(trace, "score")
        /\ Has(trace, "_write_report")

\* What C8 says of a finished run in which the loader did not raise.
NoFailFast ==
    (Done /\ ~LoaderRaised) =>
        /\ Count(trace, "to_csv") = 1
        /\ ~args.no_plots =>
              /\ Count(trace, "plot_static") = 1
              /\ Count(trace, "plot_interactive") = 1
        /\ args.no_plots =>
              /\ Count(trace, "plot_static") = 0
              /\ Count(trace, "plot_interactive") = 0
        /\ "plot_static" \in failed =>
              /\ Flag("static_png_ok") = PyFalse
              /\ Has(report.messages, "ERROR_static")
              /\ ~plots_ok
        /\ "plot_interactive" \in failed =>
              /\ Flag("interactive_html_ok") = PyFalse
              /\ Has(report.messages, "ERROR_interactive")
              /\ ~plots_ok

\* A step in which a render raises leaves the other chart's flag as it was.
RenderFailureKeepsOtherFlag ==
    /\ ("plot_static" \notin failed /\ "plot_static" \in failed')
          => Get(report'.checks, "interactive_html_ok") = Flag("interactive_html_ok")
    /\ ("plot_interactive" \notin failed /\ "plot_interactive" \in failed')
          => Get(report'.checks, "static_png_ok") = Flag("static_png_ok")

\* C8: after a successful load artifact writing is attempted whatever data_ok
\* is, each render is attempted exactly once when charts are not skipped,
\* whatever failed before, and a render failure leaves a message, sets its
\* own flag and plots_ok to false and leaves the other chart's flag alone.
C8_NoFailFast == []NoFailFast /\ [][RenderFailureKeepsOtherFlag]_vars

C8_Witness ==
    /\ Done /\ ~FrameOk /\ "write_text_stats" \in failed
    /\ "plot_static" \in failed /\ "plot_interactive" \notin failed
    /\ Flag("static_png_ok") = PyFalse /\ Flag("interactive_html_ok") = PyTrue
    /\ Count(trace, "plot_interactive") = 1

\* The trace without the write of the stats file, which is not attempted
\* when the write of the CSV raised.
Stages == SelectSeq(trace, LAMBDA e : e # "write_text_stats")

FullPathOrders ==
    {<<"load_data", "validate_dataframe", "to_numeric", "to_csv",
       "skip_plots", "score", "_write_report">>,
     <<"load_data", "validate_dataframe", "to_numeric", "to_csv",
       "plot_static", "plot_interactive", "score", "_write_report">>}

WrittenOnceAtEnd ==
    Done =>
        /\ Len(writes) = 1
        /\ Count(trace, "_write_report") = 1
        /\ trace[Len(trace)] = "_write_report"
        /\ writes[1] = report
        /\ ~LoaderRaised => Stages \in FullPathOrders
        /\ LoaderRaised => trace = <<"load_data", "_write_report">>

\* Once the report has been handed to _write_report it no longer changes.
FrozenAfterWrite == Len(writes) >= 1 => (report' = report /\ writes' = writes)

\* C9: on every path that returns the report is written exactly once, as the
\* last step that touches it, and on the full path after load, validate,
\* coerce, write artifacts, render or skip charts, score, in that order.
C9_ReportWrittenOnceLast == []WrittenOnceAtEnd /\ [][FrozenAfterWrite]_vars

C9_Witness ==
    /\ Done /\ ~LoaderRaised /\ Len(writes) = 1 /\ Len(trace) = 9
    /\ "_write_report" \in failed /\ Len(stderr) = 1

MaxScore == IF args.no_plots THEN 80 ELSE 100

\* C10: once the scoring stage has run, pass is true exactly when the score is
\* the maximum of the mode (100, or 80 with --no-plots), and a chart exception
\* always leaves at least one chart flag false.
C10_PassIffMaxScore ==
    ReachedScoring =>
        /\ report.pass <=> report.score = MaxScore
        /\ ~plots_ok => (Flag("static_png_ok") = PyFalse
                         \/ Flag("interactive_html_ok") = PyFalse)

C10_Witness ==
    /\ Done /\ args.no_plots /\ report.pass /\ report.score = 80

====
